---- MODULE Spec2Model ----
(***************************************************************************)
(* A model of the product-extraction engine and of the routes that store   *)
(* its records (src/app.py).                                               *)
(*                                                                         *)
(* Text is modelled as a sequence of one-character strings, so that        *)
(* strip(), lower(), split() and float() are computed and not assumed.     *)
(* The characters documents are built from are ASCII letters, ASCII        *)
(* digits, the blank, '.', '-', '+' and '|'.                               *)
(***************************************************************************)
EXTENDS Integers, Sequences, FiniteSets, TLC

(***************************************************************************)
(* Python strings                                                          *)
(***************************************************************************)
Digits == {"0", "1", "2", "3", "4", "5", "6", "7", "8", "9"}

UpperLetters == <<"A", "B", "C", "D", "E", "F", "G", "H", "I", "J", "K", "L", "M",
                  "N", "O", "P", "Q", "R", "S", "T", "U", "V", "W", "X", "Y", "Z">>

LowerLetters == <<"a", "b", "c", "d", "e", "f", "g", "h", "i", "j", "k", "l", "m",
                  "n", "o", "p", "q", "r", "s", "t", "u", "v", "w", "x", "y", "z">>

\* str.isspace for one character
IsSpace(c) == c = " "

\* str.isdigit for one character
IsDigit(c) == c \in Digits

DigitVal(c) ==
    CASE c = "0" -> 0 [] c = "1" -> 1 [] c = "2" -> 2 [] c = "3" -> 3 [] c = "4" -> 4
      [] c = "5" -> 5 [] c = "6" -> 6 [] c = "7" -> 7 [] c = "8" -> 8 [] c = "9" -> 9

LowerChar(c) ==
    IF \E i \in 1..Len(UpperLetters) : UpperLetters[i] = c
    THEN LowerLetters[CHOOSE i \in 1..Len(UpperLetters) : UpperLetters[i] = c]
    ELSE c

\* str.lower()
Lower(s) == [i \in 1..Len(s) |-> LowerChar(s[i])]

RECURSIVE LStrip(_)
LStrip(s) == IF s # <<>> /\ IsSpace(Head(s)) THEN LStrip(Tail(s)) ELSE s

RECURSIVE RStrip(_)
RStrip(s) ==
    IF s # <<>> /\ IsSpace(s[Len(s)]) THEN RStrip(SubSeq(s, 1, Len(s) - 1)) ELSE s

\* str.strip()
Strip(s) == RStrip(LStrip(s))

\* str.split(sep)[0]: the text before the first occurrence of sep
RECURSIVE SplitFirst(_, _)
SplitFirst(s, sep) ==
    IF s = <<>> \/ Head(s) = sep THEN <<>> ELSE <<Head(s)>> \o SplitFirst(Tail(s), sep)

\* the number of occurrences of c in s
Count(s, c) == Cardinality({i \in 1..Len(s) : s[i] = c})

(***************************************************************************)
(* Python floats.  A float is nan, +inf, -inf or the finite value          *)
(* m / 10^e, kept normalised (m not divisible by 10 unless e = 0), so that *)
(* equal amounts are equal values.                                         *)
(***************************************************************************)
RECURSIVE NormFin(_, _)
NormFin(m, e) ==
    IF e > 0 /\ m % 10 = 0 THEN NormFin(m \div 10, e - 1) ELSE [k |-> "fin", m |-> m, e |-> e]

Fin(m, e) == NormFin(m, e)
NaN == [k |-> "nan", m |-> 0, e |-> 0]
PosInf == [k |-> "inf", m |-> 0, e |-> 0]
NegInf == [k |-> "ninf", m |-> 0, e |-> 0]
Zero == Fin(0, 0)

\* bool(x) of a float: only 0.0 (and -0.0) is false; nan and the infinities are true
FloatTruthy(f) == ~(f.k = "fin" /\ f.m = 0)

IsFinite(f) == f.k = "fin"
\* the digits of s read as a decimal integer
RECURSIVE DigitsVal(_)
DigitsVal(s) ==
    IF s = <<>> THEN 0 ELSE 10 * DigitsVal(SubSeq(s, 1, Len(s) - 1)) + DigitVal(s[Len(s)])

IsDigitOrDot(c) == IsDigit(c) \/ c = "."

\* ''.join(c for c in s if c.isdigit() or c == '.')
RECURSIVE KeepDigitsAndDots(_)
KeepDigitsAndDots(s) ==
    IF s = <<>> THEN <<>>
    ELSE (IF IsDigitOrDot(Head(s)) THEN <<Head(s)>> ELSE <<>>) \o KeepDigitsAndDots(Tail(s))

\* the digits of s, in order
RECURSIVE KeepDigits(_)
KeepDigits(s) ==
    IF s = <<>> THEN <<>>
    ELSE (IF IsDigit(Head(s)) THEN <<Head(s)>> ELSE <<>>) \o KeepDigits(Tail(s))

\* an unsigned decimal literal: digits with at most one '.', at least one digit
IsDecimal(s) ==
    /\ \A i \in 1..Len(s) : IsDigitOrDot(s[i])
    /\ Count(s, ".") <= 1
    /\ \E i \in 1..Len(s) : IsDigit(s[i])

DecimalVal(s) ==
    LET intPart == SplitFirst(s, ".")
        fracLen == IF Count(s, ".") = 0 THEN 0 ELSE Len(s) - Len(intPart) - 1
    IN  Fin(DigitsVal(KeepDigits(s)), fracLen)

Negate(f) ==
    CASE f.k = "fin" -> Fin(0 - f.m, f.e)
      [] f.k = "inf" -> NegInf
      [] f.k = "ninf" -> PosInf
      [] OTHER -> f

\* float(s) of a str, after the sign: the named values or a decimal literal
UnsignedOk(s) ==
    \/ Lower(s) \in {<<"n", "a", "n">>, <<"i", "n", "f">>,
                     <<"i", "n", "f", "i", "n", "i", "t", "y">>}
    \/ IsDecimal(s)

UnsignedVal(s) ==
    IF Lower(s) = <<"n", "a", "n">> THEN NaN
    ELSE IF Lower(s) \in {<<"i", "n", "f">>, <<"i", "n", "f", "i", "n", "i", "t", "y">>}
    THEN PosInf
    ELSE DecimalVal(s)

\* float(s) of a str: [ok |-> FALSE] stands for ValueError
ParseFloat(s) ==
    LET t == Strip(s)
        signed == t # <<>> /\ Head(t) \in {"+", "-"}
        body == IF signed THEN Tail(t) ELSE t
    IN  IF ~UnsignedOk(body) THEN [ok |-> FALSE, f |-> Zero]
        ELSE [ok |-> TRUE,
              f |-> IF signed /\ Head(t) = "-" THEN Negate(UnsignedVal(body))
                    ELSE UnsignedVal(body)]

\* extract_numeric_value(text): [ok |-> FALSE] stands for the ValueError it raises
extract_numeric_value(text) == ParseFloat(KeepDigitsAndDots(text))

(***************************************************************************)
(* Python and JSON values.  t is the type: "absent" (no such key),         *)
(* "none" (None, JSON null), "str" (text s), "num" (number f), "dict" (a   *)
(* dict whose 'name' is the text s), "edict" ({}), "list" (a list whose    *)
(* first element is the text s), "elist" ([]).                             *)
(***************************************************************************)
Val(t, s, f) == [t |-> t, s |-> s, f |-> f]
Absent == Val("absent", <<>>, Zero)
None == Val("none", <<>>, Zero)
Str(s) == Val("str", s, Zero)
Num(f) == Val("num", <<>>, f)
Dict(s) == Val("dict", s, Zero)
EmptyDict == Val("edict", <<>>, Zero)
List(s) == Val("list", s, Zero)
EmptyList == Val("elist", <<>>, Zero)

\* bool(v)
Truthy(v) ==
    CASE v.t = "str" -> v.s # <<>>
      [] v.t = "num" -> FloatTruthy(v.f)
      [] v.t \in {"dict", "list"} -> TRUE
      [] OTHER -> FALSE

\* dict.get(key, default) where v is what the dict holds under key
Get(v, default) == IF v.t = "absent" THEN default ELSE v

\* v or w
Or(v, w) == IF Truthy(v) THEN v ELSE w

\* float(v): err is "" or the exception raised
ToFloat(v) ==
    CASE v.t = "num" -> [err |-> "", f |-> v.f]
      [] v.t = "str" -> IF ParseFloat(v.s).ok THEN [err |-> "", f |-> ParseFloat(v.s).f]
                        ELSE [err |-> "ValueError", f |-> Zero]
      [] OTHER -> [err |-> "TypeError", f |-> Zero]

\* the integer part of m / 10^e, towards zero
RECURSIVE Trunc(_, _)
Trunc(m, e) ==
    IF e = 0 THEN m
    ELSE IF m >= 0 THEN Trunc(m \div 10, e - 1) ELSE 0 - Trunc((0 - m) \div 10, e - 1)

\* int(s) of a str: an optional sign and digits, blanks around them
ParseInt(s) ==
    LET t == Strip(s)
        signed == t # <<>> /\ Head(t) \in {"+", "-"}
        body == IF signed THEN Tail(t) ELSE t
    IN  IF body = <<>> \/ \E i \in 1..Len(body) : ~IsDigit(body[i])
        THEN [err |-> "ValueError", f |-> Zero]
        ELSE [err |-> "",
              f |-> IF signed /\ Head(t) = "-" THEN Fin(0 - DigitsVal(body), 0)
                    ELSE Fin(DigitsVal(body), 0)]

\* int(v): err is "" or the exception raised
ToInt(v) ==
    CASE v.t = "num" ->
            (CASE v.f.k = "fin" -> [err |-> "", f |-> Fin(Trunc(v.f.m, v.f.e), 0)]
               [] v.f.k = "nan" -> [err |-> "ValueError", f |-> Zero]
               [] OTHER -> [err |-> "OverflowError", f |-> Zero])
      [] v.t = "str" -> ParseInt(v.s)
      [] OTHER -> [err |-> "TypeError", f |-> Zero]

(***************************************************************************)
(* The parsed document, as the queries of the code see it.                 *)
(*                                                                         *)
(* A meta tag is "absent", "bare" (the tag without a content attribute) or *)
(* "val" (content s): soup.find gives the first tag of that property.      *)
(***************************************************************************)
NoMeta == [k |-> "absent", s |-> <<>>]
BareMeta == [k |-> "bare", s |-> <<>>]
Meta(s) == [k |-> "val", s |-> s]

\* tag.get('content') of a tag that was found
Content(meta) == IF meta.k = "val" THEN Str(meta.s) ELSE None

\* `tag and tag.get('content')`
HasContent(meta) == meta.k = "val" /\ meta.s # <<>>

\* soup.find('meta', property=[p, q]): the first in document order of the two tags
FirstOf(p, q, pFirst) ==
    IF p.k = "absent" THEN q
    ELSE IF q.k = "absent" THEN p
    ELSE IF pFirst THEN p ELSE q

NoTitle == [present |-> FALSE, text |-> <<>>]
Title(s) == [present |-> TRUE, text |-> s]

(***************************************************************************)
(* A <script type="application/ld+json"> tag.  kind is "empty" (tag.string *)
(* is None: json.loads raises TypeError), "malformed" (JSONDecodeError),   *)
(* "nondict" (JSON that is no object) or "dict" with the keys below.       *)
(* offers.t is "absent", "none", "dict", "list" (first element a dict with  *)
(* the keys of offers),                                                    *)
(* "elist" or "str"; aggregateRating.t is "absent", "none", "dict",        *)
(* "edict" or "str".                                                       *)
(***************************************************************************)
\* other: the offers object holds keys besides price and availability
NoOffers == [t |-> "absent", price |-> Absent, availability |-> Absent, other |-> FALSE]
Offers(t, price, availability, other) ==
    [t |-> t, price |-> price, availability |-> availability, other |-> other]
NoAgg == [t |-> "absent", ratingValue |-> Absent, reviewCount |-> Absent]
Agg(t, ratingValue, reviewCount) ==
    [t |-> t, ratingValue |-> ratingValue, reviewCount |-> reviewCount]

\* the 'keywords' key of a block: "absent", "none", "str" (text s), "list" (the texts
\* items) or "badlist" (a list holding something that is no text)
NoKeywords == [t |-> "absent", s |-> <<>>, items |-> <<>>]
KeywordsStr(s) == [t |-> "str", s |-> s, items |-> <<>>]
KeywordsList(items) == [t |-> "list", s |-> <<>>, items |-> items]
KeywordsBadList == [t |-> "badlist", s |-> <<>>, items |-> <<>>]

BaseBlock ==
    [kind |-> "dict", type |-> Absent, name |-> Absent, offers |-> NoOffers,
     brand |-> Absent, description |-> Absent, image |-> Absent, sku |-> Absent,
     productID |-> Absent, aggregateRating |-> NoAgg, category |-> Absent,
     keywords |-> NoKeywords]
EmptyBlock == [BaseBlock EXCEPT !.kind = "empty"]
MalformedBlock == [BaseBlock EXCEPT !.kind = "malformed"]
NonDictBlock == [BaseBlock EXCEPT !.kind = "nondict"]

ProductStr == <<"P", "r", "o", "d", "u", "c", "t">>
productStr == <<"p", "r", "o", "d", "u", "c", "t">>

BaseDoc ==
    [retailer_item_id |-> NoMeta, currency_sar |-> FALSE, canonical_salla |-> FALSE,
     blocks |-> <<>>, og_title |-> NoMeta, title |-> NoTitle,
     price_amount |-> NoMeta, sale_price_amount |-> NoMeta, og_price_amount |-> NoMeta,
     og_price_first |-> TRUE, price_elements |-> <<>>,
     product_brand |-> NoMeta, og_brand |-> NoMeta, og_brand_first |-> TRUE,
     description |-> NoMeta, og_description |-> NoMeta, og_image |-> NoMeta,
     availability |-> NoMeta, category |-> NoMeta,
     keywords |-> NoMeta, article_tag |-> NoMeta]

(***************************************************************************)
(* The record a strategy returns, or the exception it raises               *)
(***************************************************************************)
NoRec ==
    [name |-> None, price |-> None, brand |-> None, description |-> None,
     image_url |-> None, stock_status |-> None, rating |-> None, review_count |-> None,
     sku |-> None, category |-> None, keywords |-> None]

Raise(msg) == [ok |-> FALSE, err |-> msg, rec |-> NoRec]
Return(rec) == [ok |-> TRUE, err |-> "", rec |-> rec]

(***************************************************************************)
(* extract_keywords                                                        *)
(***************************************************************************)
\* the characters of the documents in code-point order, for sorted()
CodeOrder ==
    <<" ", "+", ",", "-", ".", "0", "1", "2", "3", "4", "5", "6", "7", "8", "9">>
    \o UpperLetters \o LowerLetters \o <<"|">>

Ord(c) == CHOOSE i \in 1..Len(CodeOrder) : CodeOrder[i] = c

\* a < b for two str
RECURSIVE StrLess(_, _)
StrLess(a, b) ==
    IF b = <<>> THEN FALSE
    ELSE IF a = <<>> THEN TRUE
    ELSE IF Head(a) = Head(b) THEN StrLess(Tail(a), Tail(b))
    ELSE Ord(Head(a)) < Ord(Head(b))

\* s.split(sep): the pieces of s between the occurrences of sep
RECURSIVE Split(_, _)
Split(s, sep) ==
    IF Count(s, sep) = 0 THEN <<s>>
    ELSE <<SplitFirst(s, sep)>>
         \o Split(SubSeq(s, Len(SplitFirst(s, sep)) + 2, Len(s)), sep)

\* {x.strip().lower() for x in items}
StripLowerAll(items) == {Lower(Strip(items[i])) : i \in 1..Len(items)}

\* sorted(set)
RECURSIVE Sorted(_)
Sorted(set) ==
    IF set = {} THEN <<>>
    ELSE LET least == CHOOSE x \in set : \A y \in set : y = x \/ StrLess(x, y)
         IN  <<least>> \o Sorted(set \ {least})

\* ', '.join(items)
RECURSIVE Join(_)
Join(items) ==
    IF items = <<>> THEN <<>>
    ELSE IF Len(items) = 1 THEN items[1]
    ELSE items[1] \o <<",", " ">> \o Join(Tail(items))

\* the JSON-LD loop of extract_keywords over the tags from i on: the TypeError of
\* json.loads(None) is not among the exceptions the loop catches
RECURSIVE keywords_json_ld(_, _, _)
keywords_json_ld(blocks, i, keywords) ==
    IF i > Len(blocks) THEN [err |-> "", keywords |-> keywords]
    ELSE LET b == blocks[i] IN
         IF b.kind = "empty" THEN [err |-> "TypeError", keywords |-> keywords]
         ELSE IF b.kind = "dict" /\ b.keywords.t = "list"
         THEN keywords_json_ld(blocks, i + 1, keywords \cup StripLowerAll(b.keywords.items))
         ELSE IF b.kind = "dict" /\ b.keywords.t = "str"
         THEN keywords_json_ld(blocks, i + 1,
                               keywords \cup StripLowerAll(Split(b.keywords.s, ",")))
         ELSE keywords_json_ld(blocks, i + 1, keywords)

\* extract_keywords(soup): err is "" and v the joined keywords or None, or err is the
\* exception that leaves the function
extract_keywords(d) ==
    LET fromMeta == IF HasContent(d.keywords)
                    THEN StripLowerAll(Split(d.keywords.s, ",")) ELSE {}
        fromTags == IF HasContent(d.article_tag)
                    THEN StripLowerAll(Split(d.article_tag.s, ",")) ELSE {}
        fromJson == keywords_json_ld(d.blocks, 1, fromMeta \cup fromTags)
        fromCategory == IF HasContent(d.category)
                        THEN {Lower(Strip(d.category.s))} ELSE {}
        keywords == {k \in fromJson.keywords \cup fromCategory : k # <<>>}
    IN  IF fromJson.err # "" THEN [err |-> fromJson.err, v |-> None]
        ELSE [err |-> "", v |-> IF keywords # {} THEN Str(Join(Sorted(keywords))) ELSE None]

(***************************************************************************)
(* extract_salla                                                           *)
(***************************************************************************)
\* the aggregateRating loop of extract_salla over the tags from i on; err is
\* "" or the exception that the loop does not catch
RECURSIVE salla_rating(_, _, _, _)
\* the body of the loop for the tag i, with ratingValue and reviewCount converted
salla_rating_tag(blocks, i, rating, review_count, fr, ir) ==
    IF blocks[i].kind # "dict" \/ blocks[i].type # Str(ProductStr)
    THEN salla_rating(blocks, i + 1, rating, review_count)
    ELSE IF blocks[i].aggregateRating.t \in {"absent", "none", "edict"}
    THEN [err |-> "", rating |-> rating, review_count |-> review_count]
    ELSE IF blocks[i].aggregateRating.t = "str" \/ fr.err # ""
    THEN salla_rating(blocks, i + 1, rating, review_count)
    ELSE IF ir.err \in {"ValueError", "TypeError"}
    THEN salla_rating(blocks, i + 1, Num(fr.f), review_count)
    ELSE IF ir.err # ""
    THEN [err |-> ir.err, rating |-> Num(fr.f), review_count |-> review_count]
    ELSE [err |-> "", rating |-> Num(fr.f), review_count |-> Num(ir.f)]

salla_rating(blocks, i, rating, review_count) ==
    IF i > Len(blocks) THEN [err |-> "", rating |-> rating, review_count |-> review_count]
    ELSE salla_rating_tag(blocks, i, rating, review_count,
                          ToFloat(Get(blocks[i].aggregateRating.ratingValue, Num(Zero))),
                          ToInt(Get(blocks[i].aggregateRating.reviewCount, Num(Zero))))

\* the name of extract_salla: og:title, else the <title> before its first '-'
salla_name(d) ==
    LET fromMeta == IF HasContent(d.og_title) THEN Str(Strip(d.og_title.s)) ELSE None
    IN  IF ~Truthy(fromMeta) /\ d.title.present
        THEN Str(Strip(SplitFirst(d.title.text, "-")))
        ELSE fromMeta

\* the price of extract_salla: err is "" or the ValueError of float()
salla_price_of(d, regular, sale) ==
    IF HasContent(d.price_amount) /\ ~regular.ok THEN [err |-> "ValueError", v |-> None]
    ELSE IF HasContent(d.sale_price_amount) /\ ~sale.ok
    THEN [err |-> "ValueError", v |-> None]
    ELSE IF HasContent(d.sale_price_amount) THEN [err |-> "", v |-> Num(sale.f)]
    ELSE IF HasContent(d.price_amount) THEN [err |-> "", v |-> Num(regular.f)]
    ELSE [err |-> "", v |-> None]

salla_price(d) ==
    salla_price_of(d, ParseFloat(d.price_amount.s), ParseFloat(d.sale_price_amount.s))

StripContent(meta) == IF HasContent(meta) THEN Str(Strip(meta.s)) ELSE None

salla_description(d) ==
    IF Truthy(StripContent(d.description)) THEN StripContent(d.description)
    ELSE IF HasContent(d.og_description) THEN Str(Strip(d.og_description.s))
    ELSE StripContent(d.description)

salla_stock_status(d) ==
    IF HasContent(d.availability) THEN Str(Lower(d.availability.s)) ELSE None

\* the checks and the record of extract_salla, on the values it has extracted
salla_record(d, name, price, ratings, keywords) ==
    IF ~Truthy(name) THEN Raise("Could not find product name")
    ELSE IF price.err # "" THEN Raise(price.err)
    ELSE IF ~Truthy(price.v) THEN Raise("Could not find product price")
    ELSE IF ratings.err # "" THEN Raise(ratings.err)
    ELSE IF keywords.err # "" THEN Raise(keywords.err)
    ELSE Return([name |-> name,
                 price |-> price.v,
                 brand |-> StripContent(d.product_brand),
                 description |-> salla_description(d),
                 image_url |-> StripContent(d.og_image),
                 stock_status |-> salla_stock_status(d),
                 rating |-> ratings.rating,
                 review_count |-> ratings.review_count,
                 sku |-> StripContent(d.retailer_item_id),
                 category |-> StripContent(d.category),
                 keywords |-> keywords.v])

extract_salla(d) ==
    salla_record(d, salla_name(d), salla_price(d), salla_rating(d.blocks, 1, None, None),
                 extract_keywords(d))

(***************************************************************************)
(* extract_zid                                                             *)
(***************************************************************************)
SchemaOrg ==
    <<"h", "t", "t", "p", ":", "/", "/", "s", "c", "h", "e", "m", "a", ".", "o", "r", "g", "/">>

\* s.replace(sub, '')
RECURSIVE RemoveAll(_, _)
RemoveAll(s, sub) ==
    IF Len(s) < Len(sub) THEN s
    ELSE IF SubSeq(s, 1, Len(sub)) = sub THEN RemoveAll(SubSeq(s, Len(sub) + 1, Len(s)), sub)
    ELSE <<Head(s)>> \o RemoveAll(Tail(s), sub)

\* `isinstance(data, dict) and data.get('@type', '').lower() == 'product'`, where a
\* tag that fails to parse or whose @type is no text raises and is skipped
IsProductBlock(b) ==
    b.kind = "dict" /\ b.type.t = "str" /\ Lower(b.type.s) = productStr

\* the first tag that holds a Product, 0 when there is none
FirstProduct(blocks) ==
    IF \E i \in 1..Len(blocks) : IsProductBlock(blocks[i])
    THEN CHOOSE i \in 1..Len(blocks) :
            IsProductBlock(blocks[i]) /\ \A j \in 1..(i - 1) : ~IsProductBlock(blocks[j])
    ELSE 0

\* `offers = data.get('offers', {})`, the first element taken of a list: hasGet says
\* whether the result is a dict, so that .get works on it
OffersDict(o) ==
    CASE o.t \in {"dict", "list"} -> [hasGet |-> TRUE, price |-> o.price,
                                      availability |-> o.availability, other |-> o.other]
      [] o.t \in {"absent", "elist"} -> [hasGet |-> TRUE, price |-> Absent,
                                         availability |-> Absent, other |-> FALSE]
      [] OTHER -> [hasGet |-> FALSE, price |-> Absent, availability |-> Absent,
                   other |-> FALSE]

\* `if isinstance(v, dict): v = v.get('name')`
NameOfDict(v) ==
    CASE v.t = "dict" -> Str(v.s)
      [] v.t = "edict" -> None
      [] OTHER -> Get(v, None)

\* `if isinstance(v, list): v = v[0] if v else None`
FirstOfList(v) ==
    CASE v.t = "list" -> Str(v.s)
      [] v.t = "elist" -> None
      [] OTHER -> Get(v, None)

\* the rating and review count of extract_zid; err is "" or the exception not caught
zid_rating_of(agg, fr, ir) ==
    IF agg.t \in {"absent", "none", "edict"}
    THEN [err |-> "", rating |-> None, review_count |-> None]
    ELSE IF agg.t = "str"
    THEN [err |-> "AttributeError", rating |-> None, review_count |-> None]
    ELSE IF fr.err # "" THEN [err |-> "", rating |-> None, review_count |-> None]
    ELSE IF ir.err \in {"ValueError", "TypeError"}
    THEN [err |-> "", rating |-> Num(fr.f), review_count |-> None]
    ELSE IF ir.err # "" THEN [err |-> ir.err, rating |-> None, review_count |-> None]
    ELSE [err |-> "", rating |-> Num(fr.f), review_count |-> Num(ir.f)]

zid_rating(agg) ==
    zid_rating_of(agg, ToFloat(Get(agg.ratingValue, Num(Zero))),
                  ToInt(Get(agg.reviewCount, Num(Zero))))

\* the stock status of extract_zid from offers.availability; err is "" or the
\* AttributeError of .replace on a value that is no text
zid_stock_status(offers) ==
    LET availability == Get(offers.availability, Str(<<>>))
    IN  IF availability.t # "str" THEN [err |-> "AttributeError", v |-> None]
        ELSE [err |-> "", v |-> Str(Lower(RemoveAll(availability.s, SchemaOrg)))]

\* the checks and the record of extract_zid, on the Product it has found
zid_record(product_data, offers, price, stock, ratings, keywords) ==
    IF ~Truthy(Get(product_data.name, None)) THEN Raise("Product name not found in JSON-LD")
    ELSE IF ~offers.hasGet THEN Raise("AttributeError")
    ELSE IF ~Truthy(Get(offers.price, None)) THEN Raise("Product price not found in JSON-LD")
    ELSE IF stock.err # "" THEN Raise(stock.err)
    ELSE IF ratings.err # "" THEN Raise(ratings.err)
    ELSE IF keywords.err # "" THEN Raise(keywords.err)
    ELSE IF price.err # "" THEN Raise(price.err)
    ELSE Return([name |-> Get(product_data.name, None),
                 price |-> Num(price.f),
                 brand |-> NameOfDict(product_data.brand),
                 description |-> Get(product_data.description, None),
                 image_url |-> FirstOfList(product_data.image),
                 stock_status |-> stock.v,
                 rating |-> ratings.rating,
                 review_count |-> ratings.review_count,
                 sku |-> Or(Get(product_data.sku, None),
                            Get(product_data.productID, None)),
                 category |-> NameOfDict(product_data.category),
                 keywords |-> keywords.v])

\* extract_zid when the first Product is in the tag i, 0 when there is none
zid_product(d, i) ==
    IF i = 0 THEN Raise("No valid JSON-LD product data found")
    ELSE zid_record(d.blocks[i],
                    OffersDict(d.blocks[i].offers),
                    ToFloat(Get(OffersDict(d.blocks[i].offers).price, None)),
                    zid_stock_status(OffersDict(d.blocks[i].offers)),
                    zid_rating(d.blocks[i].aggregateRating),
                    extract_keywords(d))

extract_zid(d) == zid_product(d, FirstProduct(d.blocks))

(***************************************************************************)
(* extract_generic                                                         *)
(***************************************************************************)
\* `x or None`
OrNone(v) == IF Truthy(v) THEN v ELSE None

\* bool(offers) of the offers dict: a dict is true when it holds a key
OffersTruthy(offers) ==
    offers.price.t # "absent" \/ offers.availability.t # "absent" \/ offers.other

\* The body of the JSON-LD loop for one tag, with the fields set so far.  The
\* assignments are made in the order of the code, so that an exception leaves the ones
\* before it in place.  how is "break", "continue" (the tag is skipped, or an exception
\* the loop catches) or the exception that ends the extraction.
generic_fields(b, data, offers, fp, fr, ir) ==
    LET availability == Get(offers.availability, Str(<<>>))
        agg == b.aggregateRating
        d1 == [data EXCEPT !.name = Get(b.name, None)]
        d2 == [d1 EXCEPT !.price = OrNone(Num(fp.f)),
                         !.brand = NameOfDict(b.brand),
                         !.description = Get(b.description, None),
                         !.image_url = FirstOfList(b.image),
                         !.sku = Or(Get(b.sku, None), Get(b.productID, None))]
        d3 == [d2 EXCEPT !.stock_status =
                    IF OffersTruthy(offers) THEN Str(Lower(availability.s)) ELSE None]
        d4 == [d3 EXCEPT !.rating = OrNone(Num(fr.f))]
        d5 == [d4 EXCEPT !.review_count = OrNone(Num(ir.f))]
    IN  IF b.kind = "empty" THEN [how |-> "TypeError", data |-> data]
        ELSE IF ~IsProductBlock(b) THEN [how |-> "continue", data |-> data]
        ELSE IF ~offers.hasGet \/ fp.err = "ValueError" THEN [how |-> "continue", data |-> d1]
        ELSE IF fp.err # "" THEN [how |-> fp.err, data |-> d1]
        ELSE IF OffersTruthy(offers) /\ availability.t # "str"
        THEN [how |-> "continue", data |-> d2]
        ELSE IF agg.t \in {"absent", "none", "edict"} THEN [how |-> "break", data |-> d3]
        ELSE IF agg.t = "str" THEN [how |-> "continue", data |-> d3]
        ELSE IF fr.err # "" THEN [how |-> "break", data |-> d3]
        ELSE IF ir.err \in {"ValueError", "TypeError"} THEN [how |-> "break", data |-> d4]
        ELSE IF ir.err # "" THEN [how |-> ir.err, data |-> d4]
        ELSE [how |-> "break", data |-> d5]

\* the body of the loop for the tag b, with the price, ratingValue and reviewCount
\* converted
generic_block(b, data) ==
    generic_fields(b, data, OffersDict(b.offers),
                   ToFloat(Get(OffersDict(b.offers).price, Num(Zero))),
                   ToFloat(Get(b.aggregateRating.ratingValue, Num(Zero))),
                   ToInt(Get(b.aggregateRating.reviewCount, Num(Zero))))

\* the JSON-LD loop over the tags from i on
RECURSIVE generic_json_ld(_, _, _)
\* the loop after the body has run for the tag i
generic_json_ld_next(blocks, i, step) ==
    IF step.how = "continue" THEN generic_json_ld(blocks, i + 1, step.data)
    ELSE IF step.how = "break" THEN [err |-> "", data |-> step.data]
    ELSE [err |-> step.how, data |-> step.data]

generic_json_ld(blocks, i, data) ==
    IF i > Len(blocks) THEN [err |-> "", data |-> data]
    ELSE generic_json_ld_next(blocks, i, generic_block(blocks[i], data))

\* generic_name with the <title> tried before the og:title tag
generic_name_title_first(d, name) ==
    LET fromTitle == IF d.title.present
                     THEN Str(Strip(SplitFirst(SplitFirst(d.title.text, "-"), "|")))
                     ELSE name
    IN  IF Truthy(name) THEN name
        ELSE IF ~Truthy(fromTitle) /\ d.og_title.k # "absent" THEN Content(d.og_title)
        ELSE fromTitle

\* "If name not found in JSON-LD, try meta tags"
generic_name(d, name) ==
    LET fromMeta == IF d.og_title.k # "absent" THEN Content(d.og_title) ELSE name
    IN  IF Truthy(name) THEN name
        ELSE IF ~Truthy(fromMeta) /\ d.title.present
        THEN Str(Strip(SplitFirst(SplitFirst(d.title.text, "-"), "|")))
        ELSE fromMeta

\* the price of the first price element whose text yields a number that is not zero
RECURSIVE generic_price_elements(_, _)
generic_price_element(elements, i, numeric_value) ==
    IF numeric_value.ok /\ FloatTruthy(numeric_value.f) THEN Num(numeric_value.f)
    ELSE generic_price_elements(elements, i + 1)

generic_price_elements(elements, i) ==
    IF i > Len(elements) THEN None
    ELSE generic_price_element(elements, i, extract_numeric_value(Strip(elements[i])))

\* the price after the meta tags: the content of the first price tag as a float, the
\* price as it was when there is no tag or float() raises
generic_meta_price(og_price, parsed, price) ==
    IF og_price.k # "absent" /\ parsed.err = "" THEN Num(parsed.f) ELSE price

\* generic_price_of with the price elements tried before the meta tags
generic_price_elements_first(price, fromMeta, fromElements) ==
    IF Truthy(price) THEN price
    ELSE IF Truthy(fromElements) THEN fromElements
    ELSE fromMeta

generic_price_of(price, fromMeta, fromElements) ==
    IF Truthy(price) THEN price
    ELSE IF Truthy(fromMeta) THEN fromMeta
    ELSE IF Truthy(fromElements) THEN fromElements
    ELSE fromMeta

\* "If price not found in JSON-LD, try meta tags and common price patterns"
generic_price(d, price) ==
    generic_price_of(
        price,
        generic_meta_price(
            FirstOf(d.og_price_amount, d.price_amount, d.og_price_first),
            ToFloat(IF FirstOf(d.og_price_amount, d.price_amount, d.og_price_first).k = "val"
                    THEN Str(FirstOf(d.og_price_amount, d.price_amount, d.og_price_first).s)
                    ELSE Num(Zero)),
            price),
        generic_price_elements(d.price_elements, 1))

generic_description(d, description) ==
    LET fromMeta == IF d.description.k # "absent" THEN Content(d.description)
                    ELSE description
    IN  IF Truthy(description) THEN description
        ELSE IF ~Truthy(fromMeta) /\ d.og_description.k # "absent"
        THEN Content(d.og_description)
        ELSE fromMeta

generic_image_url(d, image_url) ==
    IF ~Truthy(image_url) /\ d.og_image.k # "absent" THEN Content(d.og_image)
    ELSE image_url

generic_brand(d, brand) ==
    LET meta_brand == FirstOf(d.og_brand, d.product_brand, d.og_brand_first)
    IN  IF ~Truthy(brand) /\ meta_brand.k # "absent" THEN Content(meta_brand) ELSE brand

\* the record after the meta tags, from the fields the JSON-LD loop has left
generic_data(d, data, keywords) ==
    [data EXCEPT !.name = generic_name(d, data.name),
                 !.price = generic_price(d, data.price),
                 !.description = generic_description(d, data.description),
                 !.image_url = generic_image_url(d, data.image_url),
                 !.brand = generic_brand(d, data.brand),
                 !.keywords = keywords.v]

\* generic_validate without "Validate required fields"
generic_unvalidated(json, keywords, data) ==
    IF json.err # "" THEN Raise(json.err)
    ELSE IF keywords.err # "" THEN Raise(keywords.err)
    ELSE Return(data)

\* the exceptions that end extract_generic, "Validate required fields", and the return
generic_validate(json, keywords, data) ==
    IF json.err # "" THEN Raise(json.err)
    ELSE IF keywords.err # "" THEN Raise(keywords.err)
    ELSE IF ~Truthy(data.name) THEN Raise("Could not find product name")
    ELSE IF ~Truthy(data.price) THEN Raise("Could not find product price")
    ELSE Return(data)

generic_result(d, json, keywords) ==
    generic_validate(json, keywords, generic_data(d, json.data, keywords))

extract_generic(d) ==
    generic_result(d, generic_json_ld(d.blocks, 1, NoRec), extract_keywords(d))

(***************************************************************************)
(* urlparse                                                                *)
(***************************************************************************)
IsLetter(c) ==
    \E i \in 1..Len(UpperLetters) : UpperLetters[i] = c \/ LowerLetters[i] = c

IsSchemeChar(c) == IsLetter(c) \/ IsDigit(c) \/ c \in {"+", "-", "."}

\* the text of s before the first of '/', '?' and '#'
RECURSIVE SplitNetloc(_)
SplitNetloc(s) ==
    IF s = <<>> \/ Head(s) \in {"/", "?", "#"} THEN <<>>
    ELSE <<Head(s)>> \o SplitNetloc(Tail(s))

\* urlparse(url): the scheme (lowercased) and the netloc
urlparse(url) ==
    LET head == SplitFirst(url, ":")
        hasScheme == /\ Count(url, ":") > 0
                     /\ head # <<>>
                     /\ IsLetter(head[1])
                     /\ \A i \in 1..Len(head) : IsSchemeChar(head[i])
        rest == IF hasScheme THEN SubSeq(url, Len(head) + 2, Len(url)) ELSE url
    IN  [scheme |-> IF hasScheme THEN Lower(head) ELSE <<>>,
         netloc |-> IF Len(rest) >= 2 /\ SubSeq(rest, 1, 2) = <<"/", "/">>
                    THEN SplitNetloc(SubSeq(rest, 3, Len(rest)))
                    ELSE <<>>]

http == <<"h", "t", "t", "p">>
https == <<"h", "t", "t", "p", "s">>

(***************************************************************************)
(* extract_product_data                                                    *)
(***************************************************************************)
\* "Detect Salla using specific meta indicators"
is_salla(d) ==
    d.retailer_item_id.k # "absent" \/ d.currency_sar \/ d.canonical_salla

\* "If not Salla, try to detect Zid via JSON-LD structured product data"
is_zid(d) == ~is_salla(d) /\ FirstProduct(d.blocks) # 0

\* select_strategy with the Zid test made before the Salla test
select_strategy_zid_first(d) ==
    IF FirstProduct(d.blocks) # 0 THEN "zid" ELSE IF is_salla(d) THEN "salla" ELSE "generic"

\* "Extract data based on platform"
select_strategy(d) ==
    IF is_salla(d) THEN "salla" ELSE IF is_zid(d) THEN "zid" ELSE "generic"

run_strategy(strategy, d) ==
    CASE strategy = "salla" -> extract_salla(d)
      [] strategy = "zid" -> extract_zid(d)
      [] OTHER -> extract_generic(d)

\* `data['website'] = domain; return data`, or the exception wrapped and raised again
finish(url, out) ==
    [ok |-> out.ok,
     err |-> IF out.ok THEN "" ELSE "Failed to extract product data",
     data |-> out.rec,
     website |-> IF out.ok THEN Lower(urlparse(url).netloc) ELSE <<>>]

\* extract_product_data(url), on a fetch that gave document d (fetched) or failed
extract_product_data(url, fetched, d) ==
    IF fetched THEN finish(url, run_strategy(select_strategy(d), d))
    ELSE finish(url, Raise("Failed to fetch page"))

\* on_fetch_error with the exception swallowed: the call goes on to the detection
on_fetch_error_continue == "detect"

\* where extract_product_data goes on when fetch_page raised: the exception leaves the
\* function
on_fetch_error == "done"

\* on_strategy_error with the generic strategy tried after a platform strategy raised
on_strategy_error_fallback(strategy) ==
    IF strategy # "generic" THEN [pc |-> "invoke", strategy |-> "generic"]
    ELSE [pc |-> "done", strategy |-> strategy]

\* where extract_product_data goes on when the strategy it selected raised, and with
\* which strategy: the exception leaves the function
on_strategy_error(strategy) == [pc |-> "done", strategy |-> strategy]

(***************************************************************************)
(* The documents the strategies are run on.  Each family varies the        *)
(* sources of one field over every text up to a bound, and the others over *)
(* a few values.                                                           *)
(***************************************************************************)
MaxTitleLen == 3
MaxContentLen == 2
MaxTokenLen == 3
MaxBlocks == 2
MaxElements == 2

\* every text of at most n characters of chars
TextsUpTo(chars, n) == UNION {[1..k -> chars] : k \in 0..n}

\* every sequence of 0 to n elements of pool
SeqsUpTo(pool, n) == UNION {[1..k -> pool] : k \in 0..n}

TitleTexts == TextsUpTo({" ", "W", "-", "|"}, MaxTitleLen)
ContentTexts == TextsUpTo({" ", "W"}, MaxContentLen)
Tokens ==
    TextsUpTo({"0", "5", ".", "-"}, MaxTokenLen)
    \cup {<<"n", "a", "n">>, <<"i", "n", "f">>, <<"-", "i", "n", "f">>, <<" ", "5", " ">>,
          <<"S", "A", "R", " ", "4", "9">>, <<"W">>, <<"1", ".", "2", "3", "4", ".", "5", "6">>}

Five == <<"5">>
Wtext == <<"W">>

Titles == {NoTitle} \cup {Title(s) : s \in TitleTexts}
FewTitles == {NoTitle, Title(<<" ">>), Title(<<"S", " ", "-", " ", "T", "|", "U">>),
              Title(<<"S", "|", "T", "-", "U">>)}
MetasOf(texts) == {NoMeta, BareMeta} \cup {Meta(s) : s \in texts}
FewMetas == {NoMeta, Meta(<<" ">>), Meta(<<" ", "M", " ">>)}

\* a Product block with a name and a price
Product(type, name, offers) ==
    [BaseBlock EXCEPT !.type = type, !.name = name, !.offers = offers]
PriceOf(price) == Offers("dict", price, Absent, FALSE)
GoodBlock == Product(Str(ProductStr), Str(Wtext), PriceOf(Num(Fin(5, 0))))

NameVals ==
    {Absent, None, Num(Fin(5, 0)), Num(Zero), List(Wtext), EmptyList}
    \cup {Str(s) : s \in ContentTexts}

PriceVals ==
    {Absent, None, Num(Zero), Num(Fin(5, 0)), Num(Fin(1999, 2)), Num(Fin(-5, 0)), Num(NaN),
     Num(PosInf), List(Five), EmptyList}
    \cup {Str(s) : s \in Tokens}

\* the tags the JSON-LD loops meet: ones that do not parse, ones that are no Product,
\* Products that raise at each point of the loops, and Products that do not
BlockPool ==
    {EmptyBlock, MalformedBlock, NonDictBlock, GoodBlock,
     Product(Str(productStr), Str(<<" ", "L">>), Offers("list", Str(Five), Absent, FALSE)),
     Product(Str(ProductStr), Str(<<"V">>), PriceOf(Str(<<"x">>))),
     Product(Str(ProductStr), Absent, PriceOf(None)),
     Product(List(ProductStr), Str(<<"A">>), PriceOf(Num(Fin(5, 0)))),
     Product(Str(<<"O", "f", "f", "e", "r">>), Str(<<"O">>), PriceOf(Num(Fin(5, 0)))),
     Product(Str(ProductStr), Str(<<"G">>), Offers("str", Absent, Absent, FALSE)),
     Product(Str(ProductStr), Str(<<"N">>), Offers("dict", Num(Fin(7, 0)), None, FALSE)),
     Product(Str(ProductStr), None, NoOffers)}

\* the Salla signals of a document
SignalKinds == {"none", "id", "bare id", "currency", "canonical"}
WithSignal(d, kind) ==
    CASE kind = "id" -> [d EXCEPT !.retailer_item_id = Meta(<<" ", "K", "1">>)]
      [] kind = "bare id" -> [d EXCEPT !.retailer_item_id = BareMeta]
      [] kind = "currency" -> [d EXCEPT !.currency_sar = TRUE]
      [] kind = "canonical" -> [d EXCEPT !.canonical_salla = TRUE]
      [] OTHER -> d

\* a document with a price for every strategy and no name
PricedDoc == [BaseDoc EXCEPT !.price_amount = Meta(Five)]
\* a document with a name for every strategy and no price
NamedDoc == [BaseDoc EXCEPT !.og_title = Meta(Wtext)]
\* a document with a name and a price for every strategy
FullDoc == [BaseDoc EXCEPT !.og_title = Meta(Wtext), !.price_amount = Meta(Five),
                           !.blocks = <<GoodBlock>>]

ElementTexts ==
    {<<>>, <<"S", "A", "R", " ", "4", "9">>, <<"0">>, <<"W">>, <<"1", ".", "2", ".", "3">>,
     <<" ", "5", ".", "5", "0", " ">>, <<"-", "5">>}

\* FullDoc with the text s in one source of one secondary field
SecondarySources(s) ==
    {[FullDoc EXCEPT !.product_brand = Meta(s)],
     [FullDoc EXCEPT !.og_brand = Meta(s)],
     [FullDoc EXCEPT !.description = Meta(s)],
     [FullDoc EXCEPT !.og_description = Meta(s)],
     [FullDoc EXCEPT !.description = Meta(<<" ">>), !.og_description = Meta(s)],
     [FullDoc EXCEPT !.og_image = Meta(s)],
     [FullDoc EXCEPT !.availability = Meta(s)],
     [FullDoc EXCEPT !.category = Meta(s)],
     [FullDoc EXCEPT !.retailer_item_id = Meta(s)],
     [FullDoc EXCEPT !.keywords = Meta(s)],
     [FullDoc EXCEPT !.article_tag = Meta(s)],
     [FullDoc EXCEPT !.blocks = <<[GoodBlock EXCEPT !.brand = Str(s)]>>],
     [FullDoc EXCEPT !.blocks = <<[GoodBlock EXCEPT !.brand = Dict(s)]>>],
     [FullDoc EXCEPT !.blocks = <<[GoodBlock EXCEPT !.description = Str(s)]>>],
     [FullDoc EXCEPT !.blocks = <<[GoodBlock EXCEPT !.image = Str(s)]>>],
     [FullDoc EXCEPT !.blocks = <<[GoodBlock EXCEPT !.image = List(s)]>>],
     [FullDoc EXCEPT !.blocks = <<[GoodBlock EXCEPT !.sku = Str(s)]>>],
     [FullDoc EXCEPT !.blocks = <<[GoodBlock EXCEPT !.productID = Str(s)]>>],
     [FullDoc EXCEPT !.blocks = <<[GoodBlock EXCEPT !.category = Str(s)]>>],
     [FullDoc EXCEPT !.blocks = <<[GoodBlock EXCEPT !.category = Dict(s)]>>],
     [FullDoc EXCEPT !.blocks = <<[GoodBlock EXCEPT !.keywords = KeywordsStr(s)]>>],
     [FullDoc EXCEPT !.blocks =
         <<[GoodBlock EXCEPT !.offers = Offers("dict", Num(Fin(5, 0)), Str(s), FALSE)]>>]}

Urls == {<<"h", "t", "t", "p", ":", "/", "/", "A", ".", "s", "a", "/", "p">>}

(***************************************************************************)
(* One call of extract_product_data, or of one strategy on its own, on a   *)
(* document.                                                               *)
(***************************************************************************)
VARIABLES
    pc,         \* where the call is: "start", "fetch", "detect", "invoke", "done"
    entry,      \* the function called: "extract_product_data" or a strategy
    url,        \* the URL asked for
    doc,        \* the document the URL serves
    response,   \* of fetch_page: "none", "ok", or why it raised
    gets,       \* the GET requests issued
    strategy,   \* the strategy selected
    invoked,    \* the strategies invoked, in order
    result      \* what the call returned or raised

callVars == <<pc, entry, url, doc, response, gets, strategy, invoked, result>>

(***************************************************************************)
(* The database and the requests of the routes that write to it.           *)
(***************************************************************************)
VARIABLES
    products,     \* the committed rows of Product
    history,      \* the committed rows of PriceHistory
    writer,       \* the request whose transaction holds the write lock, or "none"
    requests      \* the add_products requests being served

storeVars == <<products, history, writer, requests>>

vars == <<callVars, storeVars>>

Requests == {"r1", "r2"}

\* a request slot that serves no request
IdleRequest ==
    [pc |-> "idle", urls |-> <<>>, i |-> 1, new |-> <<>>, flushed |-> <<>>,
     outcomes |-> <<>>, results |-> <<>>, status |-> 0]

EmptyStore ==
    /\ products = {}
    /\ history = {}
    /\ writer = "none"
    /\ requests = [r \in Requests |-> IdleRequest]

\* every <title>, with a few og:title tags and structured-data names
TitleDocs ==
    \E ti \in Titles, og \in FewMetas, nm \in {Absent, None}, salla \in {"none", "currency"} :
       doc = WithSignal([PricedDoc EXCEPT
                            !.title = ti, !.og_title = og,
                            !.blocks = IF nm = Absent THEN <<>>
                                       ELSE <<Product(Str(ProductStr), nm,
                                                      PriceOf(Num(Fin(5, 0))))>>], salla)

\* every og:title and every structured-data name, with a few <title>
NameDocs ==
    \E ti \in FewTitles, og \in MetasOf(ContentTexts), nm \in NameVals,
       salla \in {"none", "currency"} :
       doc = WithSignal([PricedDoc EXCEPT
                            !.title = ti, !.og_title = og,
                            !.blocks = <<Product(Str(ProductStr), nm, PriceOf(Str(Five)))>>],
                        salla)

\* every list of JSON-LD tags
BlockDocs ==
    \E bl \in SeqsUpTo(BlockPool, MaxBlocks), og \in {NoMeta, Meta(<<"M">>)},
       salla \in {"none", "currency"} :
       doc = WithSignal([BaseDoc EXCEPT !.blocks = bl, !.og_title = og,
                                        !.price_amount = Meta(<<"9">>)], salla)

\* every Salla signal, with and without a Product
SignalDocs ==
    \E kind \in SignalKinds, bl \in SeqsUpTo({GoodBlock, MalformedBlock}, MaxBlocks),
       og \in {NoMeta, Meta(<<"M">>)}, pm \in {NoMeta, Meta(<<"9">>)} :
       doc = WithSignal([BaseDoc EXCEPT !.blocks = bl, !.og_title = og, !.price_amount = pm],
                        kind)

\* every price meta tag
MetaPriceDocs ==
    \E pm \in MetasOf(Tokens),
       sale \in {NoMeta, Meta(<<"0">>), Meta(<<"4">>), Meta(<<"x">>)},
       og \in {NoMeta, Meta(<<"3">>)}, salla \in {"none", "currency"} :
       doc = WithSignal([NamedDoc EXCEPT
                            !.price_amount = pm, !.sale_price_amount = sale,
                            !.og_price_amount = og, !.og_price_first = (sale = NoMeta)],
                        salla)

\* every structured-data price
JsonPriceDocs ==
    \E ot \in {"dict", "list"}, pv \in PriceVals, pm \in {NoMeta, Meta(<<"9">>)},
       salla \in {"none", "currency"} :
       doc = WithSignal([NamedDoc EXCEPT
                            !.blocks = <<Product(Str(ProductStr), Str(Wtext),
                                                 Offers(ot, pv, Absent, FALSE))>>,
                            !.price_amount = pm], salla)

\* every list of price elements
ElementDocs ==
    \E el \in SeqsUpTo(ElementTexts, MaxElements),
       og \in {NoMeta, BareMeta, Meta(<<"x">>), Meta(<<"0">>), Meta(<<"-", "2">>)} :
       doc = [NamedDoc EXCEPT !.price_elements = el, !.og_price_amount = og]

\* every text in every source of a secondary field
SecondaryDocs ==
    \E s \in ContentTexts, salla \in {"none", "currency"} :
       \E d \in SecondarySources(s) : doc = WithSignal(d, salla)

\* the values of aggregateRating: none, empty, a text, and every pair of a ratingValue
\* and a reviewCount
Aggs ==
    {Agg("none", Absent, Absent), Agg("edict", Absent, Absent), Agg("str", Absent, Absent)}
    \cup {Agg("dict", rv, rc) :
            rv \in {Absent, None, Num(Fin(45, 1)), Str(<<"x">>)},
            rc \in {Absent, None, Num(Fin(3, 0)), Num(PosInf), Str(<<"3", ".", "5">>)}}

\* every aggregateRating
RatingDocs ==
    \E agg \in Aggs, salla \in {"none", "currency"} :
       doc = WithSignal([FullDoc EXCEPT !.blocks = <<[GoodBlock EXCEPT !.aggregateRating = agg]>>],
                        salla)

\* the sources of the keywords: the keywords and article:tag meta tags, the keywords of
\* a JSON-LD block and the product:category meta tag
KeywordDocs ==
    \E kw \in {NoMeta, Meta(<<"B", ",", " ", "b", ",", " ", "A">>), Meta(<<" ", ",">>)},
       at \in {NoMeta, Meta(<<"c", ",", "B">>)},
       jk \in {NoKeywords, KeywordsStr(<<"d", ",", " ", "A">>),
               KeywordsList(<<<<" ", "D", " ">>, <<"a">>>>), KeywordsBadList},
       cat \in {NoMeta, Meta(<<" ", "E", " ">>)}, salla \in {"none", "currency"} :
       doc = WithSignal([FullDoc EXCEPT
                            !.keywords = kw, !.article_tag = at, !.category = cat,
                            !.blocks = <<[GoodBlock EXCEPT !.keywords = jk]>>], salla)

Docs ==
    \/ KeywordDocs
    \/ RatingDocs
    \/ TitleDocs
    \/ NameDocs
    \/ BlockDocs
    \/ SignalDocs
    \/ MetaPriceDocs
    \/ JsonPriceDocs
    \/ ElementDocs
    \/ SecondaryDocs

NoResult == [ok |-> FALSE, err |-> "pending", data |-> NoRec, website |-> <<>>]

Strategies == {"salla", "zid", "generic"}

Init ==
    /\ pc = "start"
    /\ entry = "none"
    /\ url \in Urls
    /\ Docs
    /\ response = "none"
    /\ gets = 0
    /\ strategy = "none"
    /\ invoked = <<>>
    /\ result = NoResult
    /\ EmptyStore

\* a caller calls extract_product_data(url)
call_extract_product_data ==
    /\ pc = "start"
    /\ pc' = "fetch"
    /\ entry' = "extract_product_data"
    /\ UNCHANGED <<url, doc, response, gets, strategy, invoked, result>>
    /\ UNCHANGED storeVars

\* a caller calls one strategy on the parsed document
call_strategy ==
    /\ pc = "start"
    /\ \E s \in Strategies :
       \E out \in {run_strategy(s, doc)} :
          /\ entry' = s
          /\ strategy' = s
          /\ invoked' = <<s>>
          /\ result' = [ok |-> out.ok, err |-> out.err, data |-> out.rec, website |-> <<>>]
    /\ pc' = "done"
    /\ UNCHANGED <<url, doc, response, gets>>
    /\ UNCHANGED storeVars

\* fetch_page returns the response
fetch_page_returns ==
    /\ pc = "fetch"
    /\ gets' = gets + 1
    /\ response' = "ok"
    /\ pc' = "detect"
    /\ UNCHANGED <<entry, url, doc, strategy, invoked, result>>
    /\ UNCHANGED storeVars

\* fetch_page raises: a status that is no success, a timeout, a connection error
fetch_page_raises ==
    /\ pc = "fetch"
    /\ gets' = gets + 1
    /\ response' \in {"status", "timeout", "connection"}
    /\ result' = finish(url, Raise("Failed to fetch page"))
    /\ pc' = on_fetch_error
    /\ UNCHANGED <<entry, url, doc, strategy, invoked>>
    /\ UNCHANGED storeVars

\* the platform is detected
detect ==
    /\ pc = "detect"
    /\ strategy' = select_strategy(doc)
    /\ pc' = "invoke"
    /\ UNCHANGED <<entry, url, doc, response, gets, invoked, result>>
    /\ UNCHANGED storeVars

\* the strategy is invoked and returns a record
strategy_returns ==
    /\ pc = "invoke"
    /\ \E out \in {run_strategy(strategy, doc)} :
          /\ out.ok
          /\ result' = finish(url, out)
    /\ invoked' = Append(invoked, strategy)
    /\ pc' = "done"
    /\ UNCHANGED <<entry, url, doc, response, gets, strategy>>
    /\ UNCHANGED storeVars

\* the strategy is invoked and raises
strategy_raises ==
    /\ pc = "invoke"
    /\ \E out \in {run_strategy(strategy, doc)} :
          /\ ~out.ok
          /\ result' = finish(url, out)
    /\ invoked' = Append(invoked, strategy)
    /\ pc' = on_strategy_error(strategy).pc
    /\ strategy' = on_strategy_error(strategy).strategy
    /\ UNCHANGED <<entry, url, doc, response, gets>>
    /\ UNCHANGED storeVars

Next ==
    \/ call_extract_product_data
    \/ call_strategy
    \/ fetch_page_returns
    \/ fetch_page_raises
    \/ detect
    \/ strategy_returns
    \/ strategy_raises

Spec == Init /\ [][Next]_vars

(***************************************************************************)
(* Properties of the extraction                                            *)
(***************************************************************************)
\* the call has returned a record
Returned == pc = "done" /\ result.ok
\* the call has raised
Raised == pc = "done" /\ ~result.ok

\* a value that is there: not None, and not an empty text or container
Present(v) == v.t \notin {"absent", "none", "elist", "edict"} /\ v # Str(<<>>)

\* a block that parses to an object whose @type is the text Product, in any case
ProductTyped(b) == b.kind = "dict" /\ b.type.t = "str" /\ Lower(b.type.s) = productStr

\* C1: whenever a strategy, or extract_product_data, returns a record, its name and
\* its price are both present (not null, the name not empty); every other call raises.
C1_RequiredFieldsPresent ==
    Returned => Present(result.data.name) /\ Present(result.data.price)

\* C1 witness: the generic strategy returned a record for a document whose Product
\* block has a null name
C1_Witness ==
    /\ Returned
    /\ entry = "generic"
    /\ doc.blocks # <<>>
    /\ ProductTyped(doc.blocks[1])
    /\ doc.blocks[1].name = None

\* C2: the price of every returned record is a finite number greater than zero.
C2_PriceFinitePositive ==
    Returned =>
        /\ result.data.price.t = "num"
        /\ IsFinite(result.data.price.f)
        /\ result.data.price.f.m > 0

HasSallaSignal(d) ==
    d.retailer_item_id.k # "absent" \/ d.currency_sar \/ d.canonical_salla
HasProduct(d) == \E i \in 1..Len(d.blocks) : ProductTyped(d.blocks[i])

\* C3: extract_product_data sends a document with a Salla signal to extract_salla,
\* also when it holds a Product block; a document with no Salla signal and a Product
\* block to extract_zid; every other document to extract_generic.
C3_SallaBeforeZid ==
    (entry = "extract_product_data" /\ pc \in {"invoke", "done"} /\ response = "ok") =>
        /\ HasSallaSignal(doc) => strategy = "salla"
        /\ (~HasSallaSignal(doc) /\ HasProduct(doc)) => strategy = "zid"
        /\ (~HasSallaSignal(doc) /\ ~HasProduct(doc)) => strategy = "generic"
        /\ pc = "done" => invoked = <<strategy>>

\* C3 witness: a document with a Salla signal and a Product block went to extract_salla
C3_Witness ==
    /\ entry = "extract_product_data"
    /\ pc = "done"
    /\ HasSallaSignal(doc)
    /\ HasProduct(doc)
    /\ invoked = <<"salla">>

\* C4: a call invokes at most one strategy; when that strategy raises, the call raises
\* and no other strategy is invoked.
C4_NoFallbackStrategy ==
    /\ Len(invoked) <= 1
    /\ (entry = "extract_product_data" /\ pc = "done" /\ response = "ok") =>
          /\ invoked = <<select_strategy(doc)>>
          /\ result.ok = run_strategy(select_strategy(doc), doc).ok

\* C4 witness: extract_salla raised on a document that extract_generic would have
\* returned a record for, and the call raised with extract_salla alone invoked
C4_Witness ==
    /\ entry = "extract_product_data"
    /\ Raised
    /\ invoked = <<"salla">>
    /\ extract_generic(doc).ok

FetchErrors == {"status", "timeout", "connection"}

\* C5: a call of extract_product_data issues one GET and never a second one; when the
\* fetch fails the call raises with no platform detected and no strategy invoked.
C5_OneFetchNoRetry ==
    /\ gets <= 1
    /\ (entry = "extract_product_data" /\ pc \in {"detect", "invoke", "done"}) => gets = 1
    /\ response \in FetchErrors =>
          /\ Raised
          /\ strategy = "none"
          /\ invoked = <<>>

\* C5 witness: the fetch timed out and the call raised
C5_Witness == response = "timeout" /\ Raised /\ gets = 1 /\ extract_generic(doc).ok

StringFields ==
    {"name", "brand", "description", "image_url", "stock_status", "sku", "category"}

\* C9: every text field of a returned record has no blank at its start or end.
C9_TextFieldsTrimmed ==
    Returned =>
        \A field \in StringFields :
            result.data[field].t = "str" =>
                Strip(result.data[field].s) = result.data[field].s

\* the first of vals that is true, None when none is
FirstTruthy(vals) ==
    IF \E i \in 1..Len(vals) : Truthy(vals[i])
    THEN vals[CHOOSE i \in 1..Len(vals) :
                 Truthy(vals[i]) /\ \A j \in 1..(i - 1) : ~Truthy(vals[j])]
    ELSE None

\* the text of s before its first character of seps
PrefixBefore(s, seps) ==
    IF \E k \in 1..Len(s) : s[k] \in seps
    THEN SubSeq(s, 1, (CHOOSE k \in 1..Len(s) :
                          s[k] \in seps /\ \A j \in 1..(k - 1) : s[j] \notin seps) - 1)
    ELSE s

\* the name field of the first Product block, None without one
StructuredName(d) ==
    IF HasProduct(d)
    THEN Get(d.blocks[CHOOSE i \in 1..Len(d.blocks) :
                         /\ ProductTyped(d.blocks[i])
                         /\ \A j \in 1..(i - 1) : ~ProductTyped(d.blocks[j])].name, None)
    ELSE None

OgTitle(d) == IF d.og_title.k = "val" THEN Str(d.og_title.s) ELSE None

TitleSegment(d, seps) ==
    IF d.title.present THEN Str(Strip(PrefixBefore(d.title.text, seps))) ELSE None

\* the name of the chain: structured-data name, else og:title, else the first segment
\* of the <title> split on '-' or '|', trimmed
ChainName(d) == FirstTruthy(<<StructuredName(d), OgTitle(d), TitleSegment(d, {"-", "|"})>>)

\* C10 as stated: the name of every record a strategy returns is the first non-empty
\* of the structured-data name, the og:title content and the first segment of the
\* <title> split on '-' or '|'.
C10_SameNameChain == Returned => result.data.name = ChainName(doc)

\* the name each strategy recovers
GenericName(d) ==
    FirstTruthy(<<generic_json_ld(d.blocks, 1, NoRec).data.name, OgTitle(d),
                  TitleSegment(d, {"-", "|"})>>)
SallaName(d) ==
    FirstTruthy(<<IF d.og_title.k = "val" THEN Str(Strip(d.og_title.s)) ELSE None,
                  TitleSegment(d, {"-"})>>)
ZidName(d) == StructuredName(d)
NameOf(s, d) ==
    CASE s = "salla" -> SallaName(d) [] s = "zid" -> ZidName(d) [] OTHER -> GenericName(d)

\* C10 amended: extract_generic returns the first non-empty of the name its JSON-LD
\* loop left (that of the last Product block it read), the og:title content as it is,
\* and the <title> before its first '-' or '|', trimmed; extract_salla the first
\* non-empty of the og:title content, trimmed, and the <title> before its first '-',
\* trimmed, and never the structured-data name; extract_zid the name of the first
\* Product block and nothing else.  A strategy whose sources are all empty raises.
C10_NameChainPerStrategy ==
    pc = "done" /\ response \notin FetchErrors =>
        /\ result.ok => result.data.name = NameOf(strategy, doc)
        /\ ~Truthy(NameOf(strategy, doc)) => ~result.ok

\* C10 witness: extract_generic took the name from the <title>, after a Product block
\* with no name and an og:title tag with no content
C10_Witness ==
    /\ Returned
    /\ entry = "generic"
    /\ HasProduct(doc)
    /\ ~Truthy(StructuredName(doc))
    /\ doc.og_title.k # "absent"
    /\ ~Truthy(OgTitle(doc))
    /\ result.data.name = TitleSegment(doc, {"-", "|"})
    /\ Count(doc.title.text, "|") > 0

(***************************************************************************)
(* add_products and delete_all_products.  The server handles requests in   *)
(* threads, each with its own session: a request is a sequence of steps,   *)
(* one per URL of its batch and one for the commit, and the steps of two   *)
(* requests interleave.  A session sees the committed rows and the rows it *)
(* has flushed itself; a flush takes the write lock of the database, which *)
(* the commit or the rollback releases.                                    *)
(***************************************************************************)
MAX_URLS == 10
MaxUrls == 2

\* the pages of the web: the shop at a is a Salla shop, whose price meta tag reads "5"
\* or "nan"; the shop at b gives a page with a Product block, with a Product block
\* that lacks the name, or with a Product block whose price is "0"
SallaPage == [BaseDoc EXCEPT !.og_title = Meta(Wtext), !.price_amount = Meta(Five),
                             !.currency_sar = TRUE]
NanPage == [SallaPage EXCEPT !.price_amount = Meta(<<"n", "a", "n">>)]
ZidPage == [BaseDoc EXCEPT !.blocks = <<GoodBlock>>]
NamelessPage ==
    [BaseDoc EXCEPT !.blocks = <<Product(Str(ProductStr), Absent, PriceOf(Num(Fin(5, 0))))>>]
FreePage ==
    [BaseDoc EXCEPT !.blocks = <<Product(Str(ProductStr), Str(Wtext), PriceOf(Str(<<"0">>)))>>]

UrlB == <<" ", "H", "T", "T", "P", "S", ":", "/", "/", "B", "/", " ">>
UrlA == <<"h", "t", "t", "p", ":", "/", "/", "a">>
NotUrl == <<"a", "/", "/", "b">>

Pages(u) ==
    IF urlparse(u).netloc = <<"a">> THEN {SallaPage, NanPage}
    ELSE {ZidPage, NamelessPage, FreePage}

\* the URLs a batch is made of: one with blanks around, one that is no HTTP URL
UrlPool == {UrlA, UrlB, NotUrl}

\* the batches: of 1 to MaxUrls URLs, the empty one, and one of more than MAX_URLS
Batches ==
    SeqsUpTo(UrlPool, MaxUrls) \cup {[k \in 1..(MAX_URLS + 1) |-> UrlB]}

\* the batches of a request: r1 sends any batch, the request that runs beside it the
\* batches for the shop at b
BatchesOf(r) ==
    IF r = "r1" THEN Batches
    ELSE {urls \in Batches : \A k \in 1..Len(urls) : urls[k] = UrlB}

\* "Enhanced URL validation"
valid_url(u) == urlparse(u).scheme \in {http, https} /\ urlparse(u).netloc # <<>>

\* the id of a row inserted into rows
NextId(rows) ==
    IF rows = {} THEN 1
    ELSE (CHOOSE n \in {row.id : row \in rows} : \A row \in rows : row.id <= n) + 1

\* uq_product_url not enforced
uq_product_url_dropped(rows, u) == TRUE

\* the UniqueConstraint of Product on url: a row with this url may be inserted
uq_product_url(rows, u) == \A row \in rows : row.url # u

\* nullable=False of current_price: the database stores a nan as NULL
current_price_not_null(price) == price.t = "num" /\ price.f.k # "nan"

\* the INSERTs of a flush of the objects from i on, into the rows the session sees;
\* err is "" or "IntegrityError"
RECURSIVE flush(_, _, _)
flush(rows, new, i) ==
    IF i > Len(new) THEN [err |-> "", rows |-> <<>>]
    ELSE IF ~current_price_not_null(new[i].current_price) \/ ~uq_product_url(rows, new[i].url)
    THEN [err |-> "IntegrityError", rows |-> <<>>]
    ELSE LET row == [id |-> NextId(rows), url |-> new[i].url, name |-> new[i].name,
                     current_price |-> new[i].current_price, price |-> new[i].price]
             rest == flush(rows \cup {row}, new, i + 1)
         IN  [err |-> rest.err, rows |-> <<row>> \o rest.rows]

Range(s) == {s[i] : i \in 1..Len(s)}

\* the Product rows the session of request q sees
Visible(q) == products \cup Range(q.flushed)

\* `if missing_fields`: a required field of the record is false
missing_fields(out) ==
    ~Truthy(out.data.name) \/ ~Truthy(out.data.price) \/ out.website = <<>>

\* a single PriceHistory row for the batch, of its first product
price_histories_first(rows) ==
    {[id |-> NextId(history), product_id |-> rows[k].id, price |-> rows[k].price] :
        k \in 1..(IF rows = <<>> THEN 0 ELSE 1)}

\* the PriceHistory rows of the commit, one for each of the successful products
price_histories(rows) ==
    {[id |-> NextId(history) + k - 1, product_id |-> rows[k].id, price |-> rows[k].price] :
        k \in 1..Len(rows)}

\* the results of the commit, one for each of the successful products
added_results(rows) ==
    [k \in 1..Len(rows) |-> [url |-> rows[k].url, kind |-> "added", id |-> rows[k].id]]

ErrorResult(u, kind) == [url |-> u, kind |-> kind, id |-> 0]

\* the request ends in a 500 response, its transaction rolled back
Abort(r) ==
    /\ requests' = [requests EXCEPT ![r] =
                       [@ EXCEPT !.pc = "done", !.status = 500, !.new = <<>>,
                                 !.flushed = <<>>]]
    /\ writer' = IF writer = r THEN "none" ELSE writer
    /\ UNCHANGED <<products, history>>

\* the loop goes on to the next URL, or to the commit after the last one
Advance(q) ==
    [q EXCEPT !.i = q.i + 1, !.pc = IF q.i + 1 > Len(q.urls) THEN "commit" ELSE "loop"]

\* a POST /add_products arrives: a batch that is empty or too long is refused
add_products_receive(r) ==
    /\ requests[r].pc = "idle"
    /\ \E urls \in BatchesOf(r) :
          requests' = [requests EXCEPT ![r] =
              IF urls = <<>> \/ Len(urls) > MAX_URLS
              THEN [IdleRequest EXCEPT !.pc = "done", !.urls = urls, !.status = 400]
              ELSE [IdleRequest EXCEPT !.pc = "loop", !.urls = urls]]
    /\ UNCHANGED <<products, history, writer>>
    /\ UNCHANGED callVars

\* the loop body for a URL that is not a valid HTTP URL
add_products_invalid_url(r) ==
    /\ UNCHANGED callVars
    /\ LET q == requests[r]
           u == Strip(q.urls[q.i])
       IN  /\ q.pc = "loop"
           /\ ~valid_url(u)
           /\ requests' = [requests EXCEPT ![r] =
                 Advance([q EXCEPT !.outcomes = Append(@, "invalid"),
                                   !.results = Append(@, ErrorResult(u, "invalid"))])]
           /\ UNCHANGED <<products, history, writer>>

\* the loop body for a valid URL, when the query for the URL cannot flush the objects
\* added so far because another transaction holds the write lock for too long: the
\* exception is raised outside the try blocks
add_products_url_locked(r) ==
    /\ UNCHANGED callVars
    /\ LET q == requests[r]
       IN  /\ q.pc = "loop"
           /\ valid_url(Strip(q.urls[q.i]))
           /\ q.new # <<>>
           /\ writer \notin {"none", r}
           /\ Abort(r)

\* the loop body for a valid URL: the query for the URL, which first flushes the
\* objects added so far, then the extraction and the new object
add_products_url(r) ==
    /\ UNCHANGED callVars
    /\ LET q == requests[r]
           u == Strip(q.urls[q.i])
           flushing == flush(Visible(q), q.new, 1)
           flushed == [q EXCEPT !.new = <<>>, !.flushed = q.flushed \o flushing.rows]
       IN  /\ q.pc = "loop"
           /\ valid_url(u)
           /\ q.new # <<>> => writer \in {"none", r}
           /\ IF flushing.err # "" THEN Abort(r)
              ELSE /\ writer' = IF q.new # <<>> THEN r ELSE writer
                   /\ UNCHANGED <<products, history>>
                   /\ IF \E row \in Visible(flushed) : row.url = u
                      THEN requests' = [requests EXCEPT ![r] =
                              Advance([flushed EXCEPT
                                          !.outcomes = Append(@, "exists"),
                                          !.results = Append(@, ErrorResult(u, "exists"))])]
                      ELSE \E fetched \in BOOLEAN, page \in Pages(u) :
                            \E out \in {extract_product_data(u, fetched, page)} :
                              LET kind == IF ~out.ok THEN "failed"
                                          ELSE IF missing_fields(out) THEN "missing"
                                          ELSE "extracted"
                                  object == [url |-> u, name |-> out.data.name,
                                             current_price |-> out.data.price,
                                             price |-> out.data.price]
                              IN  requests' = [requests EXCEPT ![r] =
                                     Advance(IF kind = "extracted"
                                             THEN [flushed EXCEPT
                                                      !.outcomes = Append(@, kind),
                                                      !.new = <<object>>]
                                             ELSE [flushed EXCEPT
                                                      !.outcomes = Append(@, kind),
                                                      !.results =
                                                          Append(@, ErrorResult(u, kind))])]

\* the flush after the loop cannot take the write lock: rollback and a 500 response
add_products_commit_locked(r) ==
    /\ UNCHANGED callVars
    /\ LET q == requests[r]
       IN  /\ q.pc = "commit"
           /\ q.new # <<>>
           /\ writer \notin {"none", r}
           /\ Abort(r)

\* the flush after the loop, the price histories and the commit; an exception of the
\* flush gives the rollback and a 500 response
add_products_commit(r) ==
    /\ UNCHANGED callVars
    /\ LET q == requests[r]
           flushing == flush(Visible(q), q.new, 1)
           rows == q.flushed \o flushing.rows
       IN  /\ q.pc = "commit"
           /\ q.new # <<>> => writer \in {"none", r}
           /\ IF flushing.err # "" THEN Abort(r)
              ELSE /\ products' = products \cup Range(rows)
                   /\ history' = history \cup price_histories(rows)
                   /\ writer' = IF writer = r THEN "none" ELSE writer
                   /\ requests' = [requests EXCEPT ![r] =
                          [q EXCEPT !.pc = "done", !.status = 201, !.new = <<>>,
                                    !.flushed = <<>>,
                                    !.results = q.results \o added_results(rows)]]

\* the response is sent
add_products_respond(r) ==
    /\ requests[r].pc = "done"
    /\ requests' = [requests EXCEPT ![r] = IdleRequest]
    /\ UNCHANGED <<products, history, writer>>
    /\ UNCHANGED callVars

\* POST /delete_all_products: both tables are emptied in one transaction.  While
\* another transaction holds the write lock the request waits for it, or gives up
\* with a rollback and a 500 response, which changes nothing.
delete_all_products ==
    /\ writer = "none"
    /\ history' = {}
    /\ products' = {}
    /\ UNCHANGED <<writer, requests>>
    /\ UNCHANGED callVars

InitStore ==
    /\ pc = "start"
    /\ entry = "none"
    /\ url \in Urls
    /\ doc = BaseDoc
    /\ response = "none"
    /\ gets = 0
    /\ strategy = "none"
    /\ invoked = <<>>
    /\ result = NoResult
    /\ EmptyStore

NextStore ==
    \/ \E r \in Requests :
          \/ add_products_receive(r)
          \/ add_products_invalid_url(r)
          \/ add_products_url_locked(r)
          \/ add_products_url(r)
          \/ add_products_commit_locked(r)
          \/ add_products_commit(r)
          \/ add_products_respond(r)
    \/ delete_all_products

SpecStore == InitStore /\ [][NextStore]_vars

(***************************************************************************)
(* The claims on add_products and delete_all_products.                     *)
(***************************************************************************)
\* the request r has ended, and its response is ready
Done(r) == requests[r].pc = "done"

\* the ways a URL of a batch fails on its own
Failures == {"invalid", "exists", "failed", "missing"}

\* the response of r reports the k-th URL of its batch as added
ReportedAdded(r, k) ==
    \E entry_ \in Range(requests[r].results) :
        entry_.kind = "added" /\ entry_.url = Strip(requests[r].urls[k])

\* C6: in add_products, for every batch of 1 to 10 URLs, a URL that fails (invalid
\* format, already stored, extraction error, missing required field) is reported as an
\* error entry of its own and does not abort the batch: the response is the list of
\* results, and every other URL whose extraction succeeded is reported as added.
C6_FailuresIsolated ==
    \A r \in Requests :
        LET q == requests[r]
        IN  (Done(r) /\ Len(q.urls) \in 1..MAX_URLS) =>
               /\ q.status = 201
               /\ Len(q.outcomes) = Len(q.urls)
               /\ \A k \in 1..Len(q.urls) :
                     /\ q.outcomes[k] \in Failures =>
                           ErrorResult(Strip(q.urls[k]), q.outcomes[k]) \in Range(q.results)
                     /\ q.outcomes[k] = "extracted" => ReportedAdded(r, k)

\* C7: after any sequence of add_products and delete_all_products requests, no two
\* stored Product rows have the same url, also when a URL occurs more than once in one
\* batch.
C7_UrlUnique == \A p, q \in products : p.url = q.url => p = q

\* a batch with the same URL twice has been committed, and the URL is stored once
C7_Witness ==
    \E r \in Requests :
        /\ Done(r)
        /\ requests[r].status = 201
        /\ Len(requests[r].urls) = 2
        /\ requests[r].urls[1] = requests[r].urls[2]
        /\ requests[r].outcomes = <<"extracted", "exists">>
        /\ Cardinality({p \in products : p.url = Strip(requests[r].urls[1])}) = 1

\* the PriceHistory rows of the product p among rows
HistoryOf(p, rows) == {h \in rows : h.product_id = p.id}

\* C8: after any sequence of add_products and delete_all_products requests, in every
\* committed state each stored Product has exactly one PriceHistory row, whose
\* product_id is the product's id and whose price is the product's current_price, and
\* the row is written by the commit that writes the product.
C8_OneHistoryPerProduct ==
    [][/\ \A p \in products' :
             \E h \in history' : HistoryOf(p, history') = {h} /\ h.price = p.current_price
       /\ \A p \in products' \ products : HistoryOf(p, history') \subseteq history' \ history
      ]_vars

\* one commit has stored two products, each with its own PriceHistory row
C8_Witness ==
    /\ Cardinality(products) = 2
    /\ \A p \in products : Cardinality(HistoryOf(p, history)) = 1
    /\ \E r \in Requests :
          /\ Done(r)
          /\ requests[r].outcomes = <<"extracted", "extracted">>
          /\ \A k \in 1..2 : ReportedAdded(r, k)

(***************************************************************************)
(* The claims on the price.                                                *)
(***************************************************************************)
\* the first Product block of d
FirstProductBlock(d) ==
    d.blocks[CHOOSE i \in 1..Len(d.blocks) :
                /\ ProductTyped(d.blocks[i])
                /\ \A j \in 1..(i - 1) : ~ProductTyped(d.blocks[j])]

\* v as a number: None when there is no value or float() rejects it
NumberOf(v) == IF ToFloat(v).err = "" THEN Num(ToFloat(v).f) ELSE None

\* offers.price of the first Product block as a number, the first offer taken of a list
StructuredPrice(d) ==
    IF HasProduct(d) /\ FirstProductBlock(d).offers.t \in {"dict", "list"}
    THEN NumberOf(FirstProductBlock(d).offers.price)
    ELSE None

\* the content of the first price meta tag as a number
MetaPrice(d) ==
    LET tag == FirstOf(d.og_price_amount, d.price_amount, d.og_price_first)
    IN  CASE tag.k = "val" -> NumberOf(Str(tag.s))
          [] tag.k = "bare" -> Num(Zero)
          [] OTHER -> None

\* the number of the first price element that yields one other than zero
ElementPrice(d) ==
    FirstTruthy([i \in 1..Len(d.price_elements) |->
                    IF extract_numeric_value(Strip(d.price_elements[i])).ok
                    THEN Num(extract_numeric_value(Strip(d.price_elements[i])).f)
                    ELSE None])

\* the price of the chain: offers.price, else the price meta tags, else the price
\* elements (the documents hold no price outside these sources)
ChainPrice(d) == FirstTruthy(<<StructuredPrice(d), MetaPrice(d), ElementPrice(d)>>)

GenericPrice(d) ==
    FirstTruthy(<<generic_json_ld(d.blocks, 1, NoRec).data.price, MetaPrice(d),
                  ElementPrice(d)>>)
SallaPrice(d) ==
    IF HasContent(d.sale_price_amount) THEN NumberOf(Str(d.sale_price_amount.s))
    ELSE IF HasContent(d.price_amount) THEN NumberOf(Str(d.price_amount.s))
    ELSE None
ZidPrice(d) == StructuredPrice(d)
PriceOfStrategy(s, d) ==
    CASE s = "salla" -> SallaPrice(d) [] s = "zid" -> ZidPrice(d) [] OTHER -> GenericPrice(d)

Unconvertible(meta) == HasContent(meta) /\ ~ParseFloat(meta.s).ok

\* offers.price of the only JSON-LD tag of d, a Product block, is a text float() rejects
UnconvertibleOffer(d) ==
    /\ Len(d.blocks) = 1
    /\ ProductTyped(d.blocks[1])
    /\ d.blocks[1].offers.t \in {"dict", "list"}
    /\ d.blocks[1].offers.price.t = "str"
    /\ ~ParseFloat(d.blocks[1].offers.price.s).ok

\* extract_salla goes on from a product:price:amount content that is no number to the
\* product:sale_price:amount content
SallaRecovers ==
    (/\ strategy = "salla"
     /\ Unconvertible(doc.price_amount)
     /\ HasContent(doc.sale_price_amount)
     /\ Truthy(NumberOf(Str(doc.sale_price_amount.s)))) =>
        result.ok /\ result.data.price = NumberOf(Str(doc.sale_price_amount.s))

\* extract_generic goes on from an offers.price that is no number to the meta tags, and
\* from a meta tag or an element that is no number to the elements after it
GenericRecovers ==
    /\ (strategy = "generic" /\ UnconvertibleOffer(doc) /\ Truthy(MetaPrice(doc))) =>
          result.ok /\ result.data.price = MetaPrice(doc)
    /\ (/\ strategy = "generic"
        /\ doc.blocks = <<>>
        /\ Unconvertible(FirstOf(doc.og_price_amount, doc.price_amount, doc.og_price_first))
        /\ Truthy(ElementPrice(doc))) =>
          result.ok /\ result.data.price = ElementPrice(doc)
    /\ (/\ strategy = "generic"
        /\ doc.blocks = <<>>
        /\ ~Truthy(MetaPrice(doc))
        /\ Len(doc.price_elements) > 1
        /\ ~extract_numeric_value(Strip(doc.price_elements[1])).ok
        /\ Truthy(ElementPrice(doc))) =>
          result.ok /\ result.data.price = ElementPrice(doc)

\* C12: in every strategy, a price source whose token cannot be converted to a number
\* does not end the extraction: the strategy goes on to the next price source of its
\* chain, and raises only when no source yields a price.
C12_ParseFailureRecovered ==
    (pc = "done" /\ response \notin FetchErrors /\ Truthy(NameOf(strategy, doc))) =>
        SallaRecovers /\ GenericRecovers

(***************************************************************************)
(* The claim on the secondary fields.                                      *)
(***************************************************************************)
SecondaryFields ==
    {"brand", "description", "image_url", "sku", "stock_status", "category", "rating",
     "review_count"}

\* the document holds one Product block with a name and the price 5, an og:title and
\* a product:price:amount tag with a price, and keywords that extract_keywords reads
\* without an error: every strategy finds its name and its price
NameAndPriceRecoverable(d) ==
    /\ Len(d.blocks) = 1
    /\ d.blocks[1].kind = "dict"
    /\ d.blocks[1].type = Str(ProductStr)
    /\ d.blocks[1].name = Str(Wtext)
    /\ d.blocks[1].offers.t = "dict"
    /\ d.blocks[1].offers.price = Num(Fin(5, 0))
    /\ d.og_title = Meta(Wtext)
    /\ d.price_amount = Meta(Five)
    /\ d.sale_price_amount = NoMeta
    /\ extract_keywords(d).err = ""

\* no source of the document holds a secondary field
NoSecondarySource(d) ==
    /\ d.blocks = <<GoodBlock>>
    /\ \A m \in {d.retailer_item_id, d.product_brand, d.og_brand, d.description,
                 d.og_description, d.og_image, d.availability, d.category} : m = NoMeta

\* aggregateRating is no object with a ratingValue and a reviewCount
RatingMalformed(d) == d.blocks[1].aggregateRating.t \in {"none", "edict", "str"}

\* C13 as stated: on a page whose name and price are recoverable, no strategy fails
\* for a secondary field, a secondary field that no source holds is returned as null,
\* and so are rating and review_count when aggregateRating is malformed.
C13_SecondaryFieldsNull ==
    (pc = "done" /\ response \notin FetchErrors /\ NameAndPriceRecoverable(doc)) =>
        /\ result.ok
        /\ NoSecondarySource(doc) => \A f \in SecondaryFields : result.data[f] = None
        /\ RatingMalformed(doc) => result.data.rating = None /\ result.data.review_count = None

(***************************************************************************)
(* The claim on the keywords.                                              *)
(***************************************************************************)
\* the texts the sources of the keywords hold: the pieces between the commas of the
\* two meta tags and of a keywords text, the items of a keywords list, the category
KeywordTexts(d) ==
    LET pieces(m) == IF HasContent(m) THEN Range(Split(m.s, ",")) ELSE {}
        ofBlock(b) == CASE b.kind = "dict" /\ b.keywords.t = "str" ->
                               Range(Split(b.keywords.s, ","))
                        [] b.kind = "dict" /\ b.keywords.t = "list" -> Range(b.keywords.items)
                        [] OTHER -> {}
    IN  pieces(d.keywords) \cup pieces(d.article_tag)
        \cup UNION {ofBlock(d.blocks[i]) : i \in 1..Len(d.blocks)}
        \cup (IF HasContent(d.category) THEN {d.category.s} ELSE {})

\* the value of the claim: the texts lowercased and trimmed, the empty ones dropped,
\* each once, in order, joined by ', '; None when there is none
KeywordsClaimed(d) ==
    LET values == {Lower(Strip(t)) : t \in KeywordTexts(d)} \ {<<>>}
    IN  IF values = {} THEN None ELSE Str(Join(Sorted(values)))

\* C14 as stated: extract_keywords returns, on every page, the union of the keywords
\* of its four sources, lowercased, trimmed, without the empty ones, each once, in
\* alphabetical order and joined by ', ', and the record of a strategy holds it.
C14_KeywordsUnion ==
    (pc = "done" /\ response \notin FetchErrors) =>
        /\ extract_keywords(doc) = [err |-> "", v |-> KeywordsClaimed(doc)]
        /\ result.ok => result.data.keywords = KeywordsClaimed(doc)

(***************************************************************************)
(* The claim on the tokens with more than one '.'.                         *)
(***************************************************************************)
\* the digits and dots of the text of a price element, as extract_generic hands it over
ElementToken(text) == KeepDigitsAndDots(Strip(text))

\* the amount of a token of digits and dots whose last '.' is the decimal point
LastDotVal(t) ==
    LET last == CHOOSE i \in 1..Len(t) : t[i] = "." /\ \A j \in (i + 1)..Len(t) : t[j] # "."
    IN  Fin(DigitsVal(KeepDigits(t)), Len(t) - last)

\* the page has a name and no price but in its price elements, the first of which
\* holds more than one '.'
SeveralDotsFirst(d) ==
    /\ d.blocks = <<>>
    /\ d.og_price_amount = NoMeta /\ d.price_amount = NoMeta
    /\ d.price_elements # <<>>
    /\ Count(ElementToken(d.price_elements[1]), ".") > 1

\* C15 as stated: extract_numeric_value gives, for the text of every price element with
\* more than one '.' among its digits and dots, the amount whose decimal point is the
\* last '.', and extract_generic returns that amount when the element is the first
\* source of a price.
C15_LastDotIsDecimalPoint ==
    (pc = "done" /\ response \notin FetchErrors) =>
        /\ \A i \in 1..Len(doc.price_elements) :
              Count(ElementToken(doc.price_elements[i]), ".") > 1 =>
                  extract_numeric_value(Strip(doc.price_elements[i]))
                      = [ok |-> TRUE, f |-> LastDotVal(ElementToken(doc.price_elements[i]))]
        /\ (strategy = "generic" /\ Truthy(GenericName(doc)) /\ SeveralDotsFirst(doc)) =>
              /\ result.ok
              /\ result.data.price = Num(LastDotVal(ElementToken(doc.price_elements[1])))
================================================================================
